---- MODULE Spec2Model ----
(***************************************************************************)
(* The live synchronisation engine of the terminal lyrics visualizer:      *)
(* SyncData, the position_monitor thread (the Observer) and run_visualizer *)
(* (the Loop), src/visualizer_main.py, with the playerctl queries of       *)
(* src/visualizer_player.py and parse_lrc_simple of src/parser.py.         *)
(*                                                                         *)
(* Time and positions are integers in tenths of a second: 1.0s is 10.      *)
(* A Python None is NoneNum for a number, "" for a title (the code only    *)
(* tests titles for truthiness) and <<>> for a track tuple.                *)
(***************************************************************************)
EXTENDS Integers, Sequences, FiniteSets, TLC

\* ------------------------------------------------------------------ bounds
\* The clock is read to the tick: it advances TickLen tenths of a second at a
\* time, MaxTicks times.
TickLen == 10
MaxTicks == 2
\* The player is operated (a seek, a pause, the next track) at most this often.
MaxOracleEvents == 1
\* The playerctl queries fail (time out, exit non-zero) at most this often.
MaxQueryFailures == 1
\* The longest raw lyric file, and the largest timestamp, of the scan inputs.
MaxRawLen == 3
MaxStamp == 3

\* ------------------------------------------------------- program constants
NoneNum == -1
PollInterval == 2
DriftThreshold == 10
IdleSleep == 10
SeekThreshold == 50
SeekTries == 20
SeekSleep == 1
\* refresh_rate, a parameter of run_visualizer (0.05s by default): every value
\* shorter than a tick gives the same runs here.
RefreshRate == 1

NoTrack == <<>>
NoTitle == ""
NoLrc == <<>>

\* ------------------------------------------------------------ lyric source
\* An entry of a lyric file is <<timestamp, text>>: the timestamp is NoneNum
\* for a line the pattern does not match (blank, comment, no time tag), the
\* text is "" when nothing but blanks follows the tag.
IsLyricLine(e) == e[1] # NoneNum /\ e[2] # ""

\* sorted(lines, key=lambda x: x[0]): a stable insertion of x after every
\* element whose key is not larger.
RECURSIVE InsertByStamp(_, _)
InsertByStamp(x, s) ==
    IF s = <<>> THEN <<x>>
    ELSE IF x[1] < s[1][1] THEN <<x>> \o s
    ELSE <<s[1]>> \o InsertByStamp(x, Tail(s))

RECURSIVE SortByStamp(_)
SortByStamp(s) ==
    IF s = <<>> THEN <<>>
    ELSE InsertByStamp(s[Len(s)], SortByStamp(SubSeq(s, 1, Len(s) - 1)))

parse_lrc_simple(raw) == SortByStamp(SelectSeq(raw, IsLyricLine))

\* The player's tracks, (artist, title), and the lyric files of the library.
TrackA == <<"x", "A">>
TrackB == <<"x", "B">>
TrackC == <<"x", "C">>
\* A track with the title of TrackA by another artist; the library has no
\* lyric file for it.
TrackCover == <<"y", "A">>
Tracks == {TrackA, TrackB, TrackC, TrackCover}

find_lrc_for_audio(track) ==
    IF track = TrackA THEN << <<20, "b">>, <<NoneNum, "#">>, <<0, "a">>, <<50, "c">> >>
    ELSE IF track = TrackB THEN << <<10, "d">>, <<10, "e">>, <<30, "">>, <<30, "f">> >>
    ELSE IF track = TrackC THEN << <<NoneNum, "#">>, <<10, "">> >>
    ELSE NoLrc

\* --------------------------------------------------------- index selection
\* idx = 0; for i, (start, _) in enumerate(lines): if pos < start: break; idx = i
\* (indices are the code's, from 0: lines[i] is ls[i + 1]).
\* The initial scan with `if pos <= start: break`.
RECURSIVE InitialScanFromStrict(_, _, _, _)
InitialScanFromStrict(ls, p, i, idx) ==
    IF i >= Len(ls) THEN idx
    ELSE IF p <= ls[i + 1][1] THEN idx
    ELSE InitialScanFromStrict(ls, p, i + 1, i)

RECURSIVE InitialScanFrom(_, _, _, _)
InitialScanFrom(ls, p, i, idx) ==
    IF i >= Len(ls) THEN idx
    ELSE IF p < ls[i + 1][1] THEN idx
    ELSE InitialScanFrom(ls, p, i + 1, i)

InitialScan(ls, p) == InitialScanFrom(ls, p, 0, 0)

\* idx = 0; for i, (start, _) in enumerate(lines):
\*     if new_pos >= start: idx = i  else: break
\* The resync scan leaving the loop at the first line it accepts.
ResyncScanFromFirst(ls, p, i, idx) ==
    IF i >= Len(ls) THEN idx
    ELSE IF p >= ls[i + 1][1] THEN i
    ELSE idx

RECURSIVE ResyncScanFrom(_, _, _, _)
ResyncScanFrom(ls, p, i, idx) ==
    IF i >= Len(ls) THEN idx
    ELSE IF p >= ls[i + 1][1] THEN ResyncScanFrom(ls, p, i + 1, i)
    ELSE idx

ResyncScan(ls, p) == ResyncScanFrom(ls, p, 0, 0)

Abs(x) == IF x < 0 THEN -x ELSE x

\* ------------------------------------------------------------------- state
VARIABLES
    now,            \* time.time()
    otrack,         \* the player: its track,
    ostatus,        \*   its status,
    opos,           \*   its position,
    orestart,       \*   whether it has yet to restart after a track change,
    oevents,        \*   how often it was operated,
    ofails,         \*   how often a query of it failed
    position,       \* SyncData.position
    should_resync,  \* SyncData.should_resync
    running,        \* SyncData.running
    current_title,  \* SyncData.current_title
    paused,         \* SyncData.paused
    o_pc,           \* position_monitor: where the thread is,
    o_wake,         \*   when its sleep ends,
    last_check,     \*   its locals
    expected_pos,
    actual_pos,
    poll_paused,    \*   (history) the player was paused when the sleep of the
                    \*   current poll ended, and has been since
    l_pc,           \* run_visualizer: where the main thread is,
    l_wake,         \*   when its sleep ends,
    exc,            \*   the exception being propagated,
    last_title,     \*   its locals
    track,          \*   (artist, title)
    song_changed,
    lines,
    pos,
    tries,
    idx,
    start_time,
    start_pos,
    cursor,         \* the terminal: cursor "shown" or "hidden",
    screen,         \*   what it displays
    sel             \* the index-selection harness (SpecSelect)

playerVars == <<otrack, ostatus, opos, orestart, oevents>>
oracleVars == <<playerVars, ofails>>
syncVars == <<position, should_resync, running, current_title, paused>>
obsVars == <<o_pc, o_wake, last_check, expected_pos, actual_pos, poll_paused>>
loopVars == <<l_pc, l_wake, exc, last_title, track, song_changed, lines, pos,
              tries, idx, start_time, start_pos>>
termVars == <<cursor, screen>>
vars == <<now, oracleVars, syncVars, obsVars, loopVars, termVars, sel>>

NoSel == [raw |-> <<>>, lines |-> <<>>, p |-> 0, initial |-> NoneNum, resync |-> NoneNum]

\* The positions the player is started at and moved to.
Positions == {30, 400}

\* SyncData.__init__ and the state before run_visualizer's first statement.
InitState ==
    /\ now = 0
    /\ otrack = TrackA
    /\ ostatus = "Playing"
    /\ opos \in Positions
    /\ orestart = FALSE
    /\ oevents = 0
    /\ ofails = 0
    /\ position = NoneNum
    /\ should_resync = FALSE
    /\ running = TRUE
    /\ current_title = NoTitle
    /\ paused = FALSE
    /\ o_pc = "o_unstarted"
    /\ o_wake = 0
    /\ last_check = 0
    /\ expected_pos = NoneNum
    /\ actual_pos = NoneNum
    /\ poll_paused = FALSE
    /\ l_pc = "l_enter"
    /\ l_wake = 0
    /\ exc = "none"
    /\ last_title = NoTitle
    /\ track = NoTrack
    /\ song_changed = FALSE
    /\ lines = <<>>
    /\ pos = NoneNum
    /\ tries = 0
    /\ idx = 0
    /\ start_time = 0
    /\ start_pos = 0
    /\ cursor = "shown"
    /\ screen = "other"

Init == InitState /\ sel = NoSel

\* ------------------------------------------------- the player and the clock
\* What `playerctl position`, `metadata` and `status` answer from: the player
\* plays on with the clock and is operated from outside the program.
Tick ==
    /\ now < MaxTicks * TickLen
    /\ now' = now + TickLen
    /\ opos' = IF ostatus = "Playing" THEN opos + TickLen ELSE opos
    /\ UNCHANGED <<otrack, ostatus, orestart, oevents, ofails, syncVars, obsVars,
                   loopVars, termVars, sel>>

OracleSeek ==
    /\ oevents < MaxOracleEvents
    /\ \E p \in Positions : p # opos /\ opos' = p
    /\ oevents' = oevents + 1
    /\ UNCHANGED <<now, otrack, ostatus, orestart, ofails, syncVars, obsVars, loopVars,
                   termVars, sel>>

OraclePause ==
    /\ oevents < MaxOracleEvents
    /\ ostatus = "Playing"
    /\ ostatus' = "Paused"
    /\ oevents' = oevents + 1
    /\ UNCHANGED <<now, otrack, opos, orestart, ofails, syncVars, obsVars, loopVars,
                   termVars, sel>>

\* Playback is resumed after a pause.
OraclePlay ==
    /\ ostatus = "Paused"
    /\ ostatus' = "Playing"
    /\ poll_paused' = FALSE
    /\ UNCHANGED <<now, otrack, opos, orestart, oevents, ofails, syncVars, o_pc, o_wake,
                   last_check, expected_pos, actual_pos, loopVars, termVars, sel>>

\* The next track starts: the player reports the new track at once and, until
\* playback has restarted (OracleRestart), still the old position.
OracleNextTrack ==
    /\ oevents < MaxOracleEvents
    /\ \E t \in Tracks : t # otrack /\ otrack' = t
    /\ orestart' = TRUE
    /\ oevents' = oevents + 1
    /\ UNCHANGED <<now, ostatus, opos, ofails, syncVars, obsVars, loopVars, termVars, sel>>

OracleRestart ==
    /\ orestart
    /\ opos' = 0
    /\ orestart' = FALSE
    /\ UNCHANGED <<now, otrack, ostatus, oevents, ofails, syncVars, obsVars, loopVars,
                   termVars, sel>>

\* A query answers from the player, or fails (timeout, non-zero exit, a reply
\* that does not parse) and answers None.
Answers(value, none) == IF ofails < MaxQueryFailures THEN {value, none} ELSE {value}
get_track == Answers(otrack, NoTrack)
get_position == Answers(opos, NoneNum)
get_status == Answers(ostatus, "None")
\* The count of failed queries after a query that answered r.
Queried(r, none) == ofails' = IF r = none THEN ofails + 1 ELSE ofails

\* time.sleep(d) returns when at least d has passed. The time is somewhere in
\* [now, now + TickLen), so that a sleep shorter than a tick can end within
\* the tick it began in.
Sleep(pc, d) == l_pc' = pc /\ l_wake' = now + d
SleepOver(wake) == now + TickLen > wake

\* --------------------------------------------------------- position_monitor
\* One action for each stretch of the thread between two places where the
\* other thread's writes, the player or the clock can make a difference.

\* Line 27 as `while True`.
ObsWhileForever ==
    /\ o_pc = "o_while"
    /\ o_pc' = "o_sleep" /\ o_wake' = now + PollInterval
    /\ UNCHANGED <<now, oracleVars, syncVars, last_check, expected_pos, actual_pos, poll_paused,
                   loopVars, termVars, sel>>

\* Line 27, and the start of the sleep of line 28.
ObsWhile ==
    /\ o_pc = "o_while"
    /\ IF running
       THEN o_pc' = "o_sleep" /\ o_wake' = now + PollInterval
       ELSE o_pc' = "o_done" /\ UNCHANGED o_wake
    /\ UNCHANGED <<now, oracleVars, syncVars, last_check, expected_pos, actual_pos, poll_paused,
                   loopVars, termVars, sel>>

\* The end of the sleep and lines 30-34.
ObsTrack ==
    /\ o_pc = "o_sleep"
    /\ SleepOver(o_wake)
    /\ o_wake' = 0
    /\ poll_paused' = (ostatus = "Paused")
    /\ \E track_info \in get_track :
          /\ Queried(track_info, NoTrack)
          /\ IF track_info # NoTrack /\ current_title # NoTitle
                /\ track_info[2] # current_title
             THEN should_resync' = TRUE /\ o_pc' = "o_while"
             ELSE UNCHANGED should_resync /\ o_pc' = "o_position"
    /\ UNCHANGED <<now, playerVars, position, running, current_title, paused,
                   last_check, expected_pos, actual_pos, loopVars, termVars, sel>>

\* Lines 36-41 forgetting the anchor when the position is unknown.
ObsGetPositionDropsAnchor ==
    /\ o_pc = "o_position"
    /\ IF position = NoneNum
       THEN o_pc' = "o_while" /\ UNCHANGED <<actual_pos, ofails, expected_pos>>
       ELSE /\ actual_pos' \in get_position
            /\ Queried(actual_pos', NoneNum)
            /\ o_pc' = IF actual_pos' = NoneNum THEN "o_while" ELSE "o_status"
            /\ expected_pos' = IF actual_pos' = NoneNum THEN NoneNum ELSE expected_pos
    /\ UNCHANGED <<now, playerVars, syncVars, o_wake, last_check, poll_paused,
                   loopVars, termVars, sel>>

\* Lines 36-41.
ObsGetPosition ==
    /\ o_pc = "o_position"
    /\ IF position = NoneNum
       THEN o_pc' = "o_while" /\ UNCHANGED <<actual_pos, ofails>>
       ELSE /\ actual_pos' \in get_position
            /\ Queried(actual_pos', NoneNum)
            /\ o_pc' = IF actual_pos' = NoneNum THEN "o_while" ELSE "o_status"
    /\ UNCHANGED <<now, playerVars, syncVars, o_wake, last_check, expected_pos, poll_paused,
                   loopVars, termVars, sel>>

\* expected_pos after lines 53-57 had line 25 been expected_pos = 0.
AdvancedAnchorFromZero ==
    IF expected_pos = NoneNum THEN 0 ELSE expected_pos + (now - last_check)

\* expected_pos after lines 53-57.
AdvancedAnchor ==
    IF expected_pos = NoneNum THEN actual_pos ELSE expected_pos + (now - last_check)

\* Line 59 with `>=`.
DriftedAtLeast(actual, expected) == Abs(actual - expected) >= DriftThreshold

\* Line 59.
Drifted(actual, expected) == Abs(actual - expected) > DriftThreshold

\* Lines 43-45 when the status is 'Paused'; otherwise lines 51-60 and, when
\* no drift is found, lines 63-64.
ObsStatus ==
    /\ o_pc = "o_status"
    /\ \E status \in get_status :
          /\ Queried(status, "None")
          /\ IF status = "Paused"
             THEN /\ position' = actual_pos
                  /\ o_pc' = "o_paused"
                  /\ UNCHANGED <<paused, expected_pos, last_check>>
             ELSE /\ paused' = FALSE
                  /\ IF Drifted(actual_pos, AdvancedAnchor)
                     THEN /\ position' = actual_pos
                          /\ expected_pos' = AdvancedAnchor
                          /\ o_pc' = "o_drifted"
                          /\ UNCHANGED last_check
                     ELSE /\ expected_pos' = actual_pos
                          /\ last_check' = now
                          /\ o_pc' = "o_while"
                          /\ UNCHANGED position
    /\ UNCHANGED <<now, playerVars, should_resync, running, current_title, o_wake,
                   actual_pos, poll_paused, loopVars, termVars, sel>>

\* Lines 46-49 without line 47's expected_pos = None.
ObsPausedKeepsAnchor ==
    /\ o_pc = "o_paused"
    /\ should_resync' = TRUE
    /\ paused' = TRUE
    /\ o_pc' = "o_while"
    /\ UNCHANGED <<now, oracleVars, position, running, current_title, o_wake,
                   last_check, expected_pos, actual_pos, poll_paused, loopVars,
                   termVars, sel>>

\* Lines 46-49 without line 45's should_resync = True.
ObsPausedNoFlag ==
    /\ o_pc = "o_paused"
    /\ paused' = TRUE
    /\ expected_pos' = NoneNum
    /\ o_pc' = "o_while"
    /\ UNCHANGED <<now, oracleVars, position, should_resync, running, current_title,
                   o_wake, last_check, actual_pos, poll_paused, loopVars, termVars, sel>>

\* Lines 46-49.
ObsPaused ==
    /\ o_pc = "o_paused"
    /\ should_resync' = TRUE
    /\ paused' = TRUE
    /\ expected_pos' = NoneNum
    /\ o_pc' = "o_while"
    /\ UNCHANGED <<now, oracleVars, position, running, current_title, o_wake,
                   last_check, actual_pos, poll_paused, loopVars, termVars, sel>>

\* Line 61 followed by `continue`: lines 63-64 are not reached.
ObsDriftedKeepsAnchor ==
    /\ o_pc = "o_drifted"
    /\ should_resync' = TRUE
    /\ o_pc' = "o_while"
    /\ UNCHANGED <<now, oracleVars, position, running, current_title, paused, o_wake,
                   last_check, expected_pos, actual_pos, poll_paused, loopVars,
                   termVars, sel>>

\* Lines 61-64.
ObsDrifted ==
    /\ o_pc = "o_drifted"
    /\ should_resync' = TRUE
    /\ expected_pos' = actual_pos
    /\ last_check' = now
    /\ o_pc' = "o_while"
    /\ UNCHANGED <<now, oracleVars, position, running, current_title, paused, o_wake,
                   actual_pos, poll_paused, loopVars, termVars, sel>>

\* ----------------------------------------------------------- run_visualizer
\* The locals of the try block are not read once it is left: the model
\* forgets them there.
ForgetLocals ==
    /\ l_wake' = 0
    /\ last_title' = NoTitle
    /\ track' = NoTrack
    /\ song_changed' = FALSE
    /\ lines' = <<>>
    /\ pos' = NoneNum
    /\ tries' = 0
    /\ idx' = 0
    /\ start_time' = 0
    /\ start_pos' = 0

\* Lines 80-82: hide_cursor(); clear_screen(); display_waiting()
LoopEnter ==
    /\ l_pc = "l_enter"
    /\ cursor' = "hidden"
    /\ screen' = "waiting"
    /\ l_pc' = "l_setup"
    /\ UNCHANGED <<now, oracleVars, syncVars, obsVars, l_wake, exc, last_title, track,
                   song_changed, lines, pos, tries, idx, start_time, start_pos, sel>>

\* Lines 84-94: the thread is started (and runs its lines 24-25), the try
\* block is entered.
LoopStartMonitor ==
    /\ l_pc = "l_setup"
    /\ o_pc' = "o_while"
    /\ last_check' = now
    /\ expected_pos' = NoneNum
    /\ last_title' = NoTitle
    /\ l_pc' = "l_while"
    /\ UNCHANGED <<now, oracleVars, syncVars, o_wake, actual_pos, poll_paused, l_wake, exc, track,
                   song_changed, lines, pos, tries, idx, start_time, start_pos,
                   termVars, sel>>

\* The end of a time.sleep(1), then lines 96-117: the track, song_changed,
\* and the lookup of the track's lyric file.
LoopGetTrack ==
    /\ l_pc = "l_while"
    /\ SleepOver(l_wake)
    /\ IF ~running
       THEN /\ l_pc' = "l_finally"
            /\ ForgetLocals
            /\ UNCHANGED ofails
       ELSE \E t \in get_track :
               /\ Queried(t, NoTrack)
               /\ IF t = NoTrack
                  THEN Sleep("l_while", IdleSleep)
                       /\ UNCHANGED <<track, song_changed, last_title>>
                  ELSE /\ track' = t
                       /\ song_changed' = (last_title # NoTitle /\ t[2] # last_title)
                       /\ last_title' = t[2]
                       /\ IF find_lrc_for_audio(t) = NoLrc
                          THEN Sleep("l_while", IdleSleep)
                          ELSE l_pc' = "l_set_title" /\ l_wake' = 0
               /\ UNCHANGED <<lines, pos, tries, idx, start_time, start_pos>>
    /\ UNCHANGED <<now, playerVars, syncVars, obsVars, exc, termVars, sel>>

\* Lines 119-123 with should_resync reset for the new track.
LoopSetTitleClears ==
    /\ l_pc = "l_set_title"
    /\ current_title' = track[2]
    /\ should_resync' = FALSE
    /\ lines' = parse_lrc_simple(find_lrc_for_audio(track))
    /\ IF lines' = <<>>
       THEN Sleep("l_while", IdleSleep)
       ELSE l_pc' = "l_get_position" /\ UNCHANGED l_wake
    /\ UNCHANGED <<now, oracleVars, position, running, paused, obsVars,
                   exc, last_title, track, song_changed, pos, tries, idx, start_time,
                   start_pos, termVars, sel>>

\* Lines 119-123.
LoopSetTitle ==
    /\ l_pc = "l_set_title"
    /\ current_title' = track[2]
    /\ lines' = parse_lrc_simple(find_lrc_for_audio(track))
    /\ IF lines' = <<>>
       THEN Sleep("l_while", IdleSleep)
       ELSE l_pc' = "l_get_position" /\ UNCHANGED l_wake
    /\ UNCHANGED <<now, oracleVars, position, should_resync, running, paused, obsVars,
                   exc, last_title, track, song_changed, pos, tries, idx, start_time,
                   start_pos, termVars, sel>>

\* Lines 125-130.
LoopGetPosition ==
    /\ l_pc = "l_get_position"
    /\ pos' \in get_position
    /\ Queried(pos', NoneNum)
    /\ IF pos' = NoneNum
       THEN Sleep("l_while", IdleSleep)
       ELSE /\ l_pc' = IF song_changed /\ pos' > SeekThreshold
                       THEN "l_seek" ELSE "l_select"
            /\ UNCHANGED l_wake
    /\ UNCHANGED <<now, playerVars, syncVars, obsVars, exc, last_title, track,
                   song_changed, lines, tries, idx, start_time, start_pos, termVars, sel>>

\* The for loop of lines 131-135 running one turn more.
LoopSeekPollOneMore ==
    /\ l_pc = "l_seek"
    /\ now + TickLen > l_wake
    /\ IF tries <= SeekTries
       THEN /\ pos' \in get_position
            /\ Queried(pos', NoneNum)
            /\ IF pos' # NoneNum /\ pos' < SeekThreshold
               THEN l_pc' = "l_seek_final" /\ tries' = 0 /\ l_wake' = 0
               ELSE Sleep("l_seek", SeekSleep) /\ tries' = tries + 1
       ELSE l_pc' = "l_seek_final" /\ tries' = 0 /\ l_wake' = 0
            /\ UNCHANGED <<pos, ofails>>
    /\ UNCHANGED <<now, playerVars, syncVars, obsVars, exc, last_title, track,
                   song_changed, lines, idx, start_time, start_pos, termVars, sel>>

\* Lines 131-135, one turn of `for _ in range(20)` (tries turns are done):
\* the end of the last turn's time.sleep(0.1), then the next turn, or the end
\* of the loop.
LoopSeekPoll ==
    /\ l_pc = "l_seek"
    /\ SleepOver(l_wake)
    /\ IF tries < SeekTries
       THEN /\ pos' \in get_position
            /\ Queried(pos', NoneNum)
            /\ IF pos' # NoneNum /\ pos' < SeekThreshold
               THEN l_pc' = "l_seek_final" /\ tries' = 0 /\ l_wake' = 0
               ELSE Sleep("l_seek", SeekSleep) /\ tries' = tries + 1
       ELSE l_pc' = "l_seek_final" /\ tries' = 0 /\ l_wake' = 0
            /\ UNCHANGED <<pos, ofails>>
    /\ UNCHANGED <<now, playerVars, syncVars, obsVars, exc, last_title, track,
                   song_changed, lines, idx, start_time, start_pos, termVars, sel>>

\* Lines 137-140.
LoopSeekFinal ==
    /\ l_pc = "l_seek_final"
    /\ pos' \in get_position
    /\ Queried(pos', NoneNum)
    /\ IF pos' = NoneNum
       THEN Sleep("l_while", IdleSleep)
       ELSE l_pc' = "l_select" /\ UNCHANGED l_wake
    /\ UNCHANGED <<now, playerVars, syncVars, obsVars, exc, last_title, track,
                   song_changed, lines, tries, idx, start_time, start_pos, termVars, sel>>

\* Lines 142-149, without line 150's sync_data.position = pos.
LoopSelectKeepsPosition ==
    /\ l_pc = "l_select"
    /\ idx' = InitialScan(lines, pos)
    /\ start_time' = now
    /\ start_pos' = pos
    /\ l_pc' = "l_sync"
    /\ UNCHANGED <<now, oracleVars, syncVars, obsVars, l_wake, exc, last_title, track,
                   song_changed, lines, pos, tries, termVars, sel>>

\* Lines 142-150.
LoopSelect ==
    /\ l_pc = "l_select"
    /\ idx' = InitialScan(lines, pos)
    /\ start_time' = now
    /\ start_pos' = pos
    /\ position' = pos
    /\ l_pc' = "l_sync"
    /\ UNCHANGED <<now, oracleVars, should_resync, running, current_title, paused,
                   obsVars, l_wake, exc, last_title, track, song_changed, lines, pos,
                   tries, termVars, sel>>

\* current_pos of line 172.
CurrentPos == start_pos + (now - start_time)

\* Lines 171-183 with `current_pos > next_start`.
RenderLate ==
    /\ screen' = lines[idx + 1][2]
    /\ l_pc' = "l_sync"
    /\ IF idx + 1 < Len(lines) /\ start_pos + (now - start_time) > lines[idx + 2][1]
       THEN idx' = idx + 1 /\ l_wake' = 0
       ELSE UNCHANGED idx /\ l_wake' = now + RefreshRate

\* Lines 171-183 with line 174 as `if idx < len(lines)` and line 175 reading
\* the current line's timestamp.
RenderPastEnd ==
    /\ screen' = lines[idx + 1][2]
    /\ l_pc' = "l_sync"
    /\ IF idx < Len(lines) /\ CurrentPos >= lines[idx + 1][1]
       THEN idx' = idx + 1 /\ l_wake' = 0
       ELSE UNCHANGED idx /\ l_wake' = now + RefreshRate

\* Lines 171-183: the line is displayed; the index advances and the loop goes
\* on at once, or the loop sleeps refresh_rate.
Render ==
    /\ screen' = lines[idx + 1][2]
    /\ l_pc' = "l_sync"
    /\ IF idx + 1 < Len(lines) /\ CurrentPos >= lines[idx + 2][1]
       THEN idx' = idx + 1 /\ l_wake' = 0
       ELSE UNCHANGED idx /\ l_wake' = now + RefreshRate

\* The end of the time.sleep of line 183, then lines 152-153 and, when no
\* resync is asked for, lines 171-183.
LoopSync ==
    /\ l_pc = "l_sync"
    /\ SleepOver(l_wake)
    /\ IF idx >= Len(lines)
       THEN l_pc' = "l_while" /\ l_wake' = 0 /\ UNCHANGED <<idx, screen>>
       ELSE IF should_resync
            THEN l_pc' = "l_rs_track" /\ l_wake' = 0 /\ UNCHANGED <<idx, screen>>
            ELSE Render
    /\ UNCHANGED <<now, oracleVars, syncVars, obsVars, exc, last_title, track,
                   song_changed, lines, pos, tries, start_time, start_pos, cursor, sel>>

\* Lines 154-156 comparing new_track[0], the artist.
LoopResyncTrackByArtist ==
    /\ l_pc = "l_rs_track"
    /\ \E new_track \in get_track :
          /\ Queried(new_track, NoTrack)
          /\ l_pc' = IF new_track = NoTrack \/ new_track[1] # track[1]
                     THEN "l_while" ELSE "l_rs_anchor"
    /\ UNCHANGED <<now, playerVars, syncVars, obsVars, l_wake, exc, last_title, track,
                   song_changed, lines, pos, tries, idx, start_time, start_pos,
                   termVars, sel>>

\* Lines 154-156.
LoopResyncTrack ==
    /\ l_pc = "l_rs_track"
    /\ \E new_track \in get_track :
          /\ Queried(new_track, NoTrack)
          /\ l_pc' = IF new_track = NoTrack \/ new_track[2] # track[2]
                     THEN "l_while" ELSE "l_rs_anchor"
    /\ UNCHANGED <<now, playerVars, syncVars, obsVars, l_wake, exc, last_title, track,
                   song_changed, lines, pos, tries, idx, start_time, start_pos,
                   termVars, sel>>

\* Lines 158-167 without line 160's start_time = time.time().
LoopResyncAnchorKeepsClock ==
    /\ l_pc = "l_rs_anchor"
    /\ IF position = NoneNum
       THEN /\ exc' = "TypeError"
            /\ l_pc' = "l_finally"
            /\ ForgetLocals
       ELSE /\ start_pos' = position
            /\ idx' = ResyncScan(lines, position)
            /\ l_pc' = "l_rs_clear"
            /\ UNCHANGED <<exc, l_wake, last_title, track, song_changed, lines, pos,
                           tries, start_time>>
    /\ UNCHANGED <<now, oracleVars, syncVars, obsVars, termVars, sel>>

\* Lines 158-167; new_pos >= start raises TypeError when new_pos is None.
LoopResyncAnchor ==
    /\ l_pc = "l_rs_anchor"
    /\ IF position = NoneNum
       THEN /\ exc' = "TypeError"
            /\ l_pc' = "l_finally"
            /\ ForgetLocals
       ELSE /\ start_time' = now
            /\ start_pos' = position
            /\ idx' = ResyncScan(lines, position)
            /\ l_pc' = "l_rs_clear"
            /\ UNCHANGED <<exc, l_wake, last_title, track, song_changed, lines, pos,
                           tries>>
    /\ UNCHANGED <<now, oracleVars, syncVars, obsVars, termVars, sel>>

\* Lines 171-183 without line 169 before them.
LoopResyncClearKeeps ==
    /\ l_pc = "l_rs_clear"
    /\ Render
    /\ UNCHANGED <<now, oracleVars, syncVars, obsVars, exc, last_title, track,
                   song_changed, lines, pos, tries, start_time, start_pos, cursor, sel>>

\* Line 169, then lines 171-183.
LoopResyncClear ==
    /\ l_pc = "l_rs_clear"
    /\ should_resync' = FALSE
    /\ Render
    /\ UNCHANGED <<now, oracleVars, position, running, current_title, paused, obsVars,
                   exc, last_title, track, song_changed, lines, pos, tries,
                   start_time, start_pos, cursor, sel>>

\* The statements of the try block, lines 93-183.
TryBody == {"l_while", "l_set_title", "l_get_position", "l_seek", "l_seek_final",
            "l_select", "l_sync", "l_rs_track", "l_rs_anchor", "l_rs_clear"}
\* The statements of the finally block, lines 188-190.
FinallyBody == {"l_finally", "l_cleanup"}

\* Ctrl+C: KeyboardInterrupt is raised in the main thread between any two
\* bytecodes. In the try block line 185 catches it and the finally block
\* runs; before the try block (lines 81-91) and inside the finally block it
\* propagates to the caller.
Interrupt ==
    /\ l_pc \in {"l_setup"} \cup TryBody \cup FinallyBody
    /\ IF l_pc \in TryBody
       THEN l_pc' = "l_finally" /\ exc' = "none"
       ELSE l_pc' = "l_raised" /\ exc' = "KeyboardInterrupt"
    /\ ForgetLocals
    /\ UNCHANGED <<now, oracleVars, syncVars, obsVars, termVars, sel>>

\* An exception other than KeyboardInterrupt in the try block (open() in
\* parse_lrc_simple, a write of display_text): the finally block runs and the
\* exception propagates.
LoopFail ==
    /\ l_pc \in {"l_set_title", "l_sync", "l_rs_clear"}
    /\ exc' = "Exception"
    /\ l_pc' = "l_finally"
    /\ ForgetLocals
    /\ UNCHANGED <<now, oracleVars, syncVars, obsVars, termVars, sel>>

\* Line 188.
LoopFinally ==
    /\ l_pc = "l_finally"
    /\ running' = FALSE
    /\ l_pc' = "l_cleanup"
    /\ UNCHANGED <<now, oracleVars, position, should_resync, current_title, paused,
                   obsVars, l_wake, exc, last_title, track, song_changed, lines, pos,
                   tries, idx, start_time, start_pos, termVars, sel>>

\* Lines 189-190 with SyncData set up anew for a next run.
LoopCleanupRearm ==
    /\ l_pc = "l_cleanup"
    /\ cursor' = "shown"
    /\ screen' = "cleared"
    /\ running' = TRUE
    /\ l_pc' = IF exc = "none" THEN "l_returned" ELSE "l_raised"
    /\ UNCHANGED <<now, oracleVars, position, should_resync, current_title, paused,
                   obsVars, l_wake, exc, last_title, track, song_changed, lines, pos,
                   tries, idx, start_time, start_pos, sel>>

\* Lines 189-190, and the end of the function: a return, or the exception
\* that was not caught.
LoopCleanup ==
    /\ l_pc = "l_cleanup"
    /\ cursor' = "shown"
    /\ screen' = "cleared"
    /\ l_pc' = IF exc = "none" THEN "l_returned" ELSE "l_raised"
    /\ UNCHANGED <<now, oracleVars, syncVars, obsVars, l_wake, exc, last_title, track,
                   song_changed, lines, pos, tries, idx, start_time, start_pos, sel>>

\* ------------------------------------------------------------ specification
Oracle == OracleSeek \/ OraclePause \/ OraclePlay \/ OracleNextTrack \/ OracleRestart

Observer ==
    \/ ObsWhile \/ ObsTrack \/ ObsGetPosition \/ ObsStatus \/ ObsPaused \/ ObsDrifted

Loop ==
    \/ LoopEnter \/ LoopStartMonitor \/ LoopGetTrack \/ LoopSetTitle
    \/ LoopGetPosition \/ LoopSeekPoll \/ LoopSeekFinal \/ LoopSelect \/ LoopSync
    \/ LoopResyncTrack \/ LoopResyncAnchor \/ LoopResyncClear
    \/ Interrupt \/ LoopFail \/ LoopFinally \/ LoopCleanup

Next == Tick \/ Oracle \/ Observer \/ Loop

Spec == Init /\ [][Next]_vars

\* The program left to run: no Ctrl+C and no exception, so that the try
\* block is never left, and both threads scheduled: a thread that can take a
\* step takes one.
LoopRun ==
    \/ LoopEnter \/ LoopStartMonitor \/ LoopGetTrack \/ LoopSetTitle
    \/ LoopGetPosition \/ LoopSeekPoll \/ LoopSeekFinal \/ LoopSelect \/ LoopSync
    \/ LoopResyncTrack \/ LoopResyncAnchor \/ LoopResyncClear

RunNext == Tick \/ Oracle \/ Observer \/ LoopRun

FairSpec == Init /\ [][RunNext]_vars /\ WF_vars(Observer) /\ WF_vars(LoopRun)

\* ------------------------------------------------ index selection on its own
\* The two scans of run_visualizer applied to parse_lrc_simple's result for
\* every lyric file of up to MaxRawLen entries and every position.
RawEntries == ({NoneNum} \cup (0 .. MaxStamp)) \X {"", "w"}
RawFiles == UNION {[1 .. n -> RawEntries] : n \in 0 .. MaxRawLen}

InitSelect ==
    /\ InitState
    /\ opos = 30
    /\ \E raw \in RawFiles, p \in 0 .. MaxStamp + 1 :
          sel = [raw |-> raw, lines |-> <<>>, p |-> p,
                 initial |-> NoneNum, resync |-> NoneNum]

\* lines = parse_lrc_simple(lrc), then lines 142-146 and lines 162-167.
SelectScan ==
    /\ sel.initial = NoneNum
    /\ sel' = [sel EXCEPT !.lines = parse_lrc_simple(sel.raw),
                          !.initial = InitialScan(parse_lrc_simple(sel.raw), sel.p),
                          !.resync = ResyncScan(parse_lrc_simple(sel.raw), sel.p)]
    /\ UNCHANGED <<now, oracleVars, syncVars, obsVars, loopVars, termVars>>

SpecSelect == InitSelect /\ [][SelectScan]_vars

\* ------------------------------------------------------------------ claims
\* The largest index (from 0) of a line whose timestamp is at most p, 0 when
\* there is no such line.
GreatestAtMost(ls, p) ==
    LET S == {i \in 0 .. Len(ls) - 1 : ls[i + 1][1] <= p}
    IN IF S = {} THEN 0 ELSE CHOOSE i \in S : \A j \in S : j <= i

IsSortedByStamp(ls) == \A i, j \in 1 .. Len(ls) : i < j => ls[i][1] <= ls[j][1]

\* The Observer's drift: the reported position against its anchor advanced by
\* the time since the anchor was taken.
Noise == actual_pos - (expected_pos + (now - last_check))

\* C1: parse_lrc_simple's result is sorted by timestamp, and on it, for every
\* position p, the initial scan and the resync scan both give the largest
\* index whose timestamp is at most p, and 0 when p is before the first one.
C1_IndexSelection ==
    sel.initial # NoneNum =>
        /\ IsSortedByStamp(sel.lines)
        /\ sel.initial = GreatestAtMost(sel.lines, sel.p)
        /\ sel.resync = GreatestAtMost(sel.lines, sel.p)

\* Three lines out of a file that was not in order, the first two with the
\* same timestamp, and a position from there up to the third: index 1.
C1_TieWitness ==
    /\ sel.initial = 1 /\ sel.resync = 1
    /\ Len(sel.lines) = 3
    /\ sel.raw[1][1] > sel.raw[3][1]
    /\ sel.lines[1][1] = sel.lines[2][1]
    /\ sel.lines[2][1] <= sel.p /\ sel.p < sel.lines[3][1]

\* C2: an iteration of the inner loop that finds no resync asked for moves
\* the index from i to i + 1 when start_pos plus the time since start_time
\* has reached the timestamp of line i + 1, and leaves it at i otherwise; and
\* between two iterations the index does not move.
C2_IndexAdvance ==
    /\ [][ (LoopSync /\ ~should_resync /\ idx < Len(lines)) =>
              IF idx + 1 < Len(lines)
                 /\ start_pos + (now - start_time) >= lines[idx + 2][1]
              THEN idx' = idx + 1 ELSE idx' = idx ]_vars
    /\ [][ (l_pc = "l_sync" /\ l_pc' = "l_sync" /\ idx' # idx) =>
              /\ ~should_resync
              /\ idx' = idx + 1 /\ idx' < Len(lines)
              /\ start_pos + (now - start_time) >= lines[idx' + 1][1] ]_vars

\* Lines at 0.0, 2.0 and 5.0, the anchor at 3.0 and the player left alone:
\* 2.0s later the iteration that displays line 1 has moved the index to 2.
C2_AdvanceWitness ==
    /\ l_pc = "l_sync" /\ track = TrackA /\ oevents = 0
    /\ start_pos = 30 /\ now - start_time = 20
    /\ screen = "b" /\ idx = 2

\* C3: a poll that reaches the drift test with the player playing the same
\* track, an anchor, and a reported position more than 1.0s off the advanced
\* anchor writes the reported position to SyncData.position and then sets
\* should_resync; a resync pass that re-anchors takes SyncData.position as
\* start_pos and the largest index whose timestamp is at most it as idx.
C3_DriftResync ==
    /\ [][ (/\ o_pc = "o_status" /\ o_pc' # "o_status"
            /\ ostatus = "Playing" /\ otrack[2] = current_title
            /\ expected_pos # NoneNum /\ Abs(Noise) > 10) =>
              (position' = actual_pos /\ o_pc' = "o_drifted") ]_vars
    /\ [][ (o_pc = "o_drifted" /\ o_pc' # "o_drifted") => should_resync' ]_vars
    /\ [][ (l_pc = "l_rs_anchor" /\ l_pc' = "l_rs_clear") =>
              (start_pos' = position /\ idx' = GreatestAtMost(lines, position)) ]_vars

\* Anchored at 3.0 on the lines at 0.0, 2.0, 5.0; the player jumps to 40.0 and
\* the resync pass has re-anchored there: index 2.
C3_JumpWitness ==
    /\ l_pc = "l_rs_clear" /\ track = TrackA /\ ostatus = "Playing" /\ ~paused
    /\ pos = 30 /\ start_pos = 400 /\ idx = 2

\* C4: with the player playing and an anchor, a poll that reaches the drift
\* test goes on to set should_resync exactly when the reported position is
\* more than 1.0s off the advanced anchor; apart from the track test and the
\* pause branch, nothing else of the Observer sets should_resync.
C4_DriftIff ==
    /\ [][ (/\ o_pc = "o_status" /\ o_pc' # "o_status"
            /\ ostatus = "Playing" /\ expected_pos # NoneNum) =>
              /\ (o_pc' = "o_drifted") <=> (Abs(Noise) > 10)
              /\ should_resync' = should_resync ]_vars
    /\ [][ (o_pc = "o_drifted" /\ o_pc' # "o_drifted") => should_resync' ]_vars
    /\ [][ (~should_resync /\ should_resync' /\ o_pc \notin {"o_sleep", "o_paused"}) =>
              (o_pc = "o_drifted" /\ o_pc' = "o_while") ]_vars

\* The drift test has found more than 1.0s (expected_pos holds the advanced
\* anchor here) and should_resync is about to be set.
C4_DriftWitness ==
    /\ o_pc = "o_drifted" /\ ostatus = "Playing" /\ ~should_resync
    /\ Abs(actual_pos - expected_pos) > 10

\* C5 as stated: a poll cycle during which the player has been paused from
\* the end of the cycle's sleep on ends with should_resync true.
C5_PausedPollSetsResync ==
    [][ (/\ o_pc \in {"o_sleep", "o_position", "o_status", "o_paused", "o_drifted"}
         /\ o_pc' = "o_while"
         /\ poll_paused' /\ ostatus = "Paused") => should_resync' ]_vars

\* C5: a poll cycle whose status query answers 'Paused' writes the reported
\* position and then sets should_resync; and should_resync, once true, is
\* only made false by line 169 of a resync pass.
C5_PausedStatusSetsResync ==
    /\ [][ (/\ o_pc = "o_status" /\ o_pc' # "o_status"
            /\ ostatus = "Paused" /\ ofails' = ofails) =>
              (position' = actual_pos /\ o_pc' = "o_paused") ]_vars
    /\ [][ (o_pc = "o_paused" /\ o_pc' # "o_paused") => (should_resync' /\ paused') ]_vars
    /\ [][ (should_resync /\ ~should_resync') =>
              (l_pc = "l_rs_clear" /\ l_pc' = "l_sync") ]_vars

\* The pause branch has set should_resync while the Loop was not in a resync
\* pass.
C5_PauseWitness ==
    /\ ostatus = "Paused" /\ paused /\ should_resync /\ poll_paused
    /\ o_pc = "o_while" /\ l_pc = "l_sync" /\ position = actual_pos

\* C7: in the Seeking wait at most 20 turns (a position query, then a sleep
\* of 0.1s) are counted; after the twentieth the wait ends without another
\* query, whatever the queries answered.
C7_SeekingBound ==
    [][ (l_pc = "l_seek") =>
           /\ tries <= 20
           /\ (tries' # tries) => (tries' = tries + 1 \/ l_pc' # "l_seek")
           /\ (LoopSeekPoll /\ tries = 20) =>
                 (l_pc' = "l_seek_final" /\ UNCHANGED <<pos, ofails>>) ]_vars

\* Twenty turns done, none of them with a position below 5.0.
C7_FullWaitWitness == l_pc = "l_seek" /\ tries = 20 /\ pos >= 50

\* C8: running is true until the finally block, becomes false only by line
\* 188, and no step makes it true.
C8_RunningOnce ==
    [][ /\ (l_pc \in {"l_enter", "l_setup"} \cup TryBody) => running
        /\ (running' # running) =>
              (running /\ ~running' /\ l_pc = "l_finally" /\ l_pc' = "l_cleanup") ]_vars

\* Line 188 has run while the Observer is still polling.
C8_StoppedWitness == ~running /\ l_pc = "l_cleanup" /\ o_pc = "o_sleep"

\* C9 as stated: once run_visualizer has returned or raised, the Observer
\* thread is not running.
C9_ObserverJoined ==
    l_pc \in {"l_returned", "l_raised"} => o_pc \in {"o_unstarted", "o_done"}

\* C10 as stated: when run_visualizer has returned or raised, running is
\* false, the cursor is shown and the screen is cleared.
C10_CleanupOnExit ==
    l_pc \in {"l_returned", "l_raised"} =>
        (~running /\ cursor = "shown" /\ screen = "cleared")

\* The inner loop of lines 152-183, on the lyric lines of `track`.
InSync == l_pc \in {"l_sync", "l_rs_track", "l_rs_anchor", "l_rs_clear"}

C11_FailedQueryWritesNothing ==
    [][ (o_pc' # o_pc /\ ofails' # ofails) =>
           UNCHANGED <<position, should_resync, paused>> ]_vars

\* C12: when the Loop is at the top of an iteration of the inner loop and
\* should_resync is true, it goes on to the resync pass of that iteration
\* (no step of it takes another way), and the pass ends with the inner loop
\* left or with should_resync cleared.
C12_ResyncObserved ==
    /\ [][ (LoopSync /\ should_resync /\ idx < Len(lines)) => l_pc' = "l_rs_track" ]_vars
    /\ (l_pc = "l_sync" /\ should_resync) ~>
          (~InSync \/ (l_pc = "l_sync" /\ ~should_resync))

\* A resync pass has re-anchored and cleared should_resync, and the Loop is
\* at the top of the next iteration.
C12_ConsumedWitness ==
    /\ l_pc = "l_sync" /\ ~should_resync /\ running
    /\ position # pos /\ start_pos = position /\ paused

\* C13 as stated: the player was never paused and never sought (the track
\* change is all that was done to it), it plays the Loop's track and the
\* Loop's integrated position is the player's position; then a resync pass
\* leaves the integrated position there and does not lower the index.
C13_SpuriousResyncKeeps ==
    [][ (/\ l_pc = "l_rs_anchor" /\ l_pc' = "l_rs_clear"
         /\ oevents = 1 /\ otrack # TrackA
         /\ ostatus = "Playing" /\ otrack = track /\ ~paused
         /\ opos = start_pos + (now - start_time)) =>
           (start_pos' = start_pos + (now - start_time) /\ idx' >= idx) ]_vars

\* A step of position_monitor, and a step of run_visualizer.
ObserverStep == o_pc # "o_unstarted" /\ o_pc' # o_pc
LoopStep == l_pc' # l_pc \/ l_wake' # l_wake \/ screen' # screen \/ idx' # idx

\* C14 as stated: SyncData.position and paused change, and should_resync
\* becomes true, only in steps of the Observer; current_title and running
\* change, and should_resync becomes false, only in steps of the Loop.
C14_WritersAsListed ==
    [][ /\ (position' # position \/ paused' # paused) => (ObserverStep /\ ~LoopStep)
        /\ (~should_resync /\ should_resync') => (ObserverStep /\ ~LoopStep)
        /\ (current_title' # current_title \/ running' # running) =>
              (LoopStep /\ ~ObserverStep)
        /\ (should_resync /\ ~should_resync') => (LoopStep /\ ~ObserverStep) ]_vars

\* C14: as above, but SyncData.position is also written by the Loop, at line
\* 150 on entering the inner loop, with the position it has just sampled.
C14_Writers ==
    [][ /\ (position' # position) =>
              \/ ObserverStep /\ ~LoopStep /\ o_pc = "o_status" /\ position' = actual_pos
              \/ LoopStep /\ ~ObserverStep /\ l_pc = "l_select" /\ position' = pos
        /\ (paused' # paused) =>
              (ObserverStep /\ ~LoopStep /\ o_pc \in {"o_status", "o_paused"})
        /\ (~should_resync /\ should_resync') =>
              (ObserverStep /\ ~LoopStep /\ o_pc \in {"o_sleep", "o_paused", "o_drifted"})
        /\ (current_title' # current_title) =>
              (LoopStep /\ ~ObserverStep /\ l_pc = "l_set_title")
        /\ (running' # running) => (LoopStep /\ ~ObserverStep /\ l_pc = "l_finally")
        /\ (should_resync /\ ~should_resync') =>
              (LoopStep /\ ~ObserverStep /\ l_pc = "l_rs_clear") ]_vars

\* The Loop has written SyncData.position: the Observer has not sampled a
\* position yet.
C14_LoopWroteWitness ==
    /\ position # NoneNum /\ actual_pos = NoneNum /\ l_pc = "l_sync"
    /\ o_pc \in {"o_while", "o_sleep", "o_position"}

\* C15 as stated: line 119-123 finding no lyric line in the file leaves
\* SyncData.current_title as it was.
C15_EmptySetKeepsTitle ==
    [][ (l_pc = "l_set_title" /\ l_pc' = "l_while") =>
           current_title' = current_title ]_vars

\* How far position_monitor is from its end once running is false.
ObsRank ==
    CASE o_pc = "o_sleep" -> 5
      [] o_pc = "o_position" -> 4
      [] o_pc = "o_status" -> 3
      [] o_pc \in {"o_paused", "o_drifted"} -> 2
      [] o_pc = "o_while" -> 1
      [] OTHER -> 0

\* C16: once running is false, the Observer thread, until it has ended, can
\* always take a step, every step of it brings it nearer to its end (it
\* finishes the poll it is in and starts no other), and at line 27 it ends.
C16_ObserverStops ==
    [][ ~running =>
           /\ (o_pc # "o_done") => ENABLED Observer
           /\ ObserverStep => ObsRank' < ObsRank
           /\ (ObserverStep /\ o_pc = "o_while") => o_pc' = "o_done" ]_vars

\* The thread has ended after a poll in which a query failed, while
\* run_visualizer was still in its finally block.
C16_DoneWitness ==
    o_pc = "o_done" /\ ~running /\ l_pc = "l_cleanup" /\ ofails = 1 /\ actual_pos = NoneNum
       /\ position # NoneNum

\* C17: a resync pass that has found the track unchanged takes
\* SyncData.position as start_pos, the current time as start_time and the
\* largest index whose timestamp is at most that position as idx; the step
\* that then renders line idx is the one that writes should_resync = False.
C17_ResyncPass ==
    /\ [][ (l_pc = "l_rs_track" /\ l_pc' = "l_rs_anchor") =>
              (ofails' = ofails /\ otrack[2] = track[2] /\ should_resync) ]_vars
    /\ [][ (l_pc = "l_rs_anchor" /\ l_pc' = "l_rs_clear") =>
              /\ start_pos' = position /\ start_time' = now
              /\ idx' = GreatestAtMost(lines, position)
              /\ should_resync' /\ screen' = screen ]_vars
    /\ [][ (l_pc = "l_rs_clear" /\ l_pc' = "l_sync") =>
              /\ ~should_resync'
              /\ screen' = lines[idx + 1][2]
              /\ start_pos' = start_pos /\ start_time' = start_time ]_vars

\* Anchored at 40.0 with index 2, then, a tick later, re-anchored at 3.0 with
\* index 1.
C17_BackWitness ==
    /\ l_pc = "l_rs_clear" /\ track = TrackA
    /\ pos = 400 /\ start_pos = 30 /\ idx = 1 /\ start_time = now /\ now > 0

\* C18 as stated: a resync pass leaves the inner loop only when the track
\* query answers a track with another title.
C18_LeavesOnlyOnOtherTrack ==
    [][ (l_pc = "l_rs_track" /\ l_pc' = "l_while") =>
           (ofails' = ofails /\ otrack[2] # track[2]) ]_vars

\* C19: the steps of a poll up to the position query leave
\* SyncData.position, paused and the anchor alone; the poll ends there when
\* the title differs, SyncData.position is None or the position query
\* fails; should_resync is written, to True, only when the title differs.
C19_SkippedPoll ==
    [][ (ObserverStep /\ o_pc \in {"o_sleep", "o_position"}) =>
           /\ UNCHANGED <<position, paused, expected_pos, last_check>>
           /\ (o_pc = "o_sleep") =>
                 /\ (o_pc' = "o_while") <=>
                       (ofails' = ofails /\ current_title # NoTitle
                        /\ otrack[2] # current_title)
                 /\ (o_pc' = "o_while") => should_resync'
                 /\ (o_pc' # "o_while") => UNCHANGED should_resync
           /\ (o_pc = "o_position") =>
                 /\ (o_pc' = "o_while") <=> (position = NoneNum \/ ofails' # ofails)
                 /\ UNCHANGED should_resync ]_vars

\* A poll has ended at the failed position query, the anchor is kept and
\* should_resync is still false.
C19_SkipWitness ==
    /\ o_pc = "o_while" /\ actual_pos = NoneNum /\ ofails = 1
    /\ expected_pos # NoneNum /\ position # NoneNum /\ ~should_resync /\ running

\* C20: at the status check, the answer 'Paused' makes the poll write the
\* reported position, should_resync = True, paused = True and an empty
\* anchor; every other answer (None too) makes it write paused = False; so
\* a poll that got that far ends with paused true exactly when the answer
\* was 'Paused'.
C20_StatusCheck ==
    /\ [][ (ObserverStep /\ o_pc = "o_status") =>
              /\ (o_pc' = "o_paused") <=> (ostatus = "Paused" /\ ofails' = ofails)
              /\ (o_pc' = "o_paused") => (position' = actual_pos /\ paused' = paused)
              /\ (o_pc' # "o_paused") => ~paused' ]_vars
    /\ [][ (ObserverStep /\ o_pc = "o_paused") =>
              /\ should_resync' /\ paused' /\ expected_pos' = NoneNum
              /\ position' = position /\ o_pc' = "o_while" ]_vars
    /\ [][ (ObserverStep /\ o_pc = "o_drifted") => (~paused' /\ o_pc' = "o_while") ]_vars

\* A poll has gone through the pause branch where there was an anchor.
C20_PausedWitness ==
    /\ o_pc = "o_while" /\ paused /\ should_resync /\ expected_pos = NoneNum
    /\ position = actual_pos /\ last_check > 0 /\ ostatus = "Paused"

\* C21 as stated: a poll that reaches the status check with an empty anchor
\* writes neither SyncData.position nor should_resync.
C21_EmptyAnchorWritesNothing ==
    [][ (/\ ObserverStep /\ o_pc \in {"o_status", "o_paused", "o_drifted"}
         /\ expected_pos = NoneNum) =>
           UNCHANGED <<position, should_resync>> ]_vars

\* C21: a poll that reaches the status check with an empty anchor and does
\* not take the pause branch writes neither SyncData.position nor
\* should_resync, whatever the reported position: it takes the position as
\* the anchor and ends.
C21_FirstSampleSetsAnchor ==
    [][ (/\ ObserverStep /\ o_pc = "o_status" /\ expected_pos = NoneNum
         /\ o_pc' # "o_paused") =>
           /\ UNCHANGED <<position, should_resync>>
           /\ expected_pos' = actual_pos /\ last_check' = now
           /\ o_pc' = "o_while" ]_vars

\* The Loop is anchored at 3.0, the Observer's first sample was 40.0 and it
\* only became the anchor.
C21_FarSampleWitness ==
    /\ o_pc = "o_while" /\ position = 30 /\ actual_pos = 400 /\ expected_pos = 400
    /\ ~should_resync /\ ~paused /\ l_pc = "l_sync"

\* C22: the poll that finds a drift sets should_resync once and takes the
\* reported position as the anchor, as every poll does that gets past the
\* status check without the pause branch; and a later poll that finds the
\* player where the anchor, advanced by the time since, says (or within 1.0s
\* of it) writes neither should_resync nor SyncData.position.
C22_OneDriftSignal ==
    /\ [][ (ObserverStep /\ o_pc = "o_drifted") =>
              /\ should_resync' /\ position' = position
              /\ expected_pos' = actual_pos /\ last_check' = now
              /\ o_pc' = "o_while" ]_vars
    /\ [][ (ObserverStep /\ o_pc = "o_status" /\ o_pc' = "o_while") =>
              (expected_pos' = actual_pos /\ last_check' = now) ]_vars
    /\ [][ (/\ ObserverStep /\ o_pc = "o_status" /\ ostatus = "Playing"
            /\ expected_pos # NoneNum /\ Abs(Noise) <= 10) =>
              (o_pc' = "o_while" /\ UNCHANGED <<position, should_resync>>) ]_vars

\* After the jump from 3.0 to 40.0 was signalled and the Loop re-anchored, a
\* poll one tick later found the player at 41.0 and signalled nothing.
C22_SteadyWitness ==
    /\ o_pc = "o_while" /\ pos = 30 /\ position = 400 /\ start_pos = 400
    /\ actual_pos = 400 + TickLen /\ expected_pos = actual_pos /\ last_check = now
    /\ ~should_resync /\ l_pc = "l_sync"

\* C23: the Loop has displayed lines of track A and now resolves another
\* track; when the position it reads for that track (line 125) is above 5.0s,
\* it goes into the wait of lines 131-135 and not straight to the index
\* selection.
C23_SeekingBeforeSynced ==
    [][ (/\ l_pc = "l_get_position" /\ l_pc' # l_pc /\ screen \in {"a", "b", "c"}
         /\ track # NoTrack /\ track[2] # TrackA[2]
         /\ pos' # NoneNum /\ pos' > SeekThreshold) =>
           l_pc' = "l_seek" ]_vars

\* C24: the step after the wait of lines 131-135 (unless the run is
\* interrupted there) takes the Loop to the index selection.
C24_SeekingEndsInSelect ==
    [][ (l_pc = "l_seek_final" /\ l_pc' \notin {"l_seek_final", "l_finally"}) =>
           l_pc' = "l_select" ]_vars

\* C25: tracks are compared on artist and title. When the player's track
\* differs from the track whose lines the Loop displays, a poll of the
\* Observer whose track query succeeds sets should_resync, and a resync pass
\* of the Loop whose track query succeeds leaves the inner loop.
C25_IdentityByArtistAndTitle ==
    /\ [][ (/\ o_pc = "o_sleep" /\ ObserverStep /\ ofails' = ofails
            /\ InSync /\ otrack # track) => should_resync' ]_vars
    /\ [][ (/\ l_pc = "l_rs_track" /\ l_pc' \notin {"l_rs_track", "l_finally"}
            /\ ofails' = ofails /\ otrack # track) => l_pc' = "l_while" ]_vars

\* C26: in the inner loop the index is the index of a line, 0 <= idx <
\* len(lines), and the Loop leaves the inner loop only from the track check of
\* a resync pass or into the finally block.
C26_IndexInRange ==
    /\ [](InSync => (lines # <<>> /\ 0 <= idx /\ idx < Len(lines)))
    /\ [][ (InSync /\ ~InSync') =>
              (l_pc = "l_rs_track" \/ l_pc' = "l_finally") ]_vars

\* The index has advanced to the last line of track A, which is displayed and
\* stays.
C26_LastLineWitness ==
    /\ l_pc = "l_sync" /\ track = TrackA /\ start_pos = 30 /\ start_time = 0
    /\ idx = Len(lines) - 1 /\ screen = "c" /\ l_wake > now

\* C27: in the inner loop SyncData.position is a number, a number is never
\* replaced by None, and the re-anchoring of a resync pass never fails on a
\* missing position.
C27_PositionStaysKnown ==
    /\ [](InSync => position # NoneNum)
    /\ [][position # NoneNum => position' # NoneNum]_vars
    /\ [](exc # "TypeError")
    /\ [][ (l_pc = "l_rs_anchor" /\ l_pc' = "l_rs_clear") =>
              (start_pos' = position /\ start_pos' >= 0) ]_vars

\* A resync pass has re-anchored at a position written by the Observer.
C27_ReanchoredWitness ==
    /\ l_pc = "l_rs_clear" /\ start_pos = position /\ position # pos
    /\ position = actual_pos

\* C28: when a resync pass clears should_resync (the player is playing and the
\* Observer's last poll did not take the pause branch), the position the pass
\* anchored at is the current SyncData.position, or the Observer has written
\* the position and is yet to set should_resync for it.
C28_ClearedOnCurrentPosition ==
    [][ (/\ l_pc = "l_rs_clear" /\ l_pc' = "l_sync" /\ ~should_resync'
         /\ ostatus = "Playing" /\ ~paused) =>
           (start_pos = position \/ o_pc = "o_drifted") ]_vars

\* C29: the player is paused at a position on the Loop's track, the Observer
\* has signalled the pause and a resync pass has anchored the Loop at that
\* position and cleared the signal, the index being at most the index of the
\* last line at or before that position; then no step takes the index above
\* it.
C29_NoAdvanceWhilePaused ==
    [][ (/\ InSync /\ ostatus = "Paused" /\ otrack = track
         /\ paused /\ ~should_resync
         /\ position = opos /\ start_pos = opos
         /\ idx <= GreatestAtMost(lines, opos)) =>
           idx' <= GreatestAtMost(lines, opos) ]_vars

\* C30: when from some point on the player plays the Loop's track steadily
\* and the Loop stays in the inner loop, then from some point on the Loop's
\* integrated position is within the drift threshold plus one polling
\* interval of the player's position, and the index is the index of the last
\* line at or before the player's position.
C30_Convergence ==
    <>[](InSync /\ ostatus = "Playing" /\ otrack = track /\ ~orestart)
        => <>[](/\ Abs(CurrentPos - opos) <= DriftThreshold + PollInterval
                /\ idx = GreatestAtMost(lines, opos))

====
